---- MODULE Spec2Model ----
(***************************************************************************)
(* Booking flow of the caravan rental platform (pages/BookingPage.tsx):    *)
(* the BookingForm component's state, its three react-query mutations and  *)
(* the asynchronous handlePaymentSubmit handler, with the remote           *)
(* booking-management function and the Stripe client as nondeterministic   *)
(* responders.                                                             *)
(***************************************************************************)
EXTENDS Integers, Sequences, FiniteSets, TLC

VARIABLES
    property,               \* props.property: [berths, pet_friendly]
    pricing,                \* props.pricing: the PricingRule in force
    user,                   \* useAuth().user is non-null
    stripeReady,            \* useStripe()/useElements() are non-null
    mounted,                \* BookingForm is still on screen
    startDate, endDate,     \* useState, 'YYYY-MM-DD' or ''
    adults, children, infants, pets, specialRequests,
    currentStep,            \* useState(1)
    bookingData,            \* useState(null): bookingData.booking.id, 0 = null
    paymentIntent,          \* useState(null): the stored intent, id 0 = null
    isProcessing,           \* useState(false)
    checkAvailabilityMutation,   \* in-flight check_availability requests
    createBookingMutation,       \* in-flight create_booking requests
    pay,                    \* the running handlePaymentSubmit call
    server,                 \* remote side: ids handed out so far
    toast,                  \* the toast the last step showed, type "none" if none
    outcome,                \* how handlePaymentSubmit ended, if the last step ended it
    declined,               \* what the form showed when a card was last declined
    id,                     \* PropertyDetailPage: useParams().id
    checkIn, checkOut,      \* PropertyDetailPage: useState(''), 'YYYY-MM-DD' or ''
    guests,                 \* PropertyDetailPage: useState(2)
    location,               \* window.location: [pathname, search]
    bookingPage,            \* what BookingPage rendered for the location, if mounted
    authUser,               \* AuthProvider: useState<User | null>(null), the user's id
    profile,                \* useUserProfile: useState<UserProfile | null>(null)
    loading,                \* useUserProfile: useState(true)
    error,                  \* useUserProfile: useState<string | null>(null)
    fetches,                \* fetchProfile calls awaiting the profiles query
    media,                  \* property listing form: useState<MediaFile[]>([])
    created                 \* MediaFile ids handed out so far

vars == <<property, pricing, user, stripeReady, mounted, startDate, endDate, adults,
          children, infants, pets, specialRequests, currentStep,
          bookingData, paymentIntent, isProcessing, checkAvailabilityMutation,
          createBookingMutation, pay, server, toast, outcome, declined,
          id, checkIn, checkOut, guests, location, bookingPage,
          authUser, profile, loading, error, fetches, media, created>>

----------------------------------------------------------------------------
(* Bounds of the model *)

MaxDay == 3             \* dates offered: 2025-06-01 and 2025-06-MaxDay
MaxAdults == 2
MaxChildren == 1
MaxInfants == 1
MaxPets == 1
MaxBookings == 2        \* create_booking successes the remote grants
MaxIntents == 2         \* create_payment_intent successes the remote grants

----------------------------------------------------------------------------
(* Dates: <<y, m, d>> is the string 'YYYY-MM-DD' of a date input, <<y, m, d, h>>
   the string 'YYYY-MM-DDTHH:00Z', which a query parameter can also hold *)

NoDate == <<>>
Dates == {<<2025, 6, d>> : d \in {1, MaxDay}}

\* the start_date and end_date parameters a visitor can arrive with
UrlDates ==
    {<<2024, 2, 28>>, <<2024, 3, 1>>, <<2025, 6, 1>>, <<2025, 6, 2>>,
     <<2025, 6, 2, 12>>, <<2025, 6, 4>>}

\* 60 * 60 * 24: timestamps are kept in seconds, a date-only string parsing to a
\* whole second (UTC midnight), so the factor 1000 of getTime() and of the
\* divisor cancel
SecondsPerDay == 86400

\* days since 1970-01-01 of a civil date (proleptic Gregorian, UTC)
DaysFromCivil(date) ==
    LET m == date[2]
        d == date[3]
        y == IF m <= 2 THEN date[1] - 1 ELSE date[1]
        era == y \div 400
        yoe == y - era * 400
        mp == IF m > 2 THEN m - 3 ELSE m + 9
        doy == (153 * mp + 2) \div 5 + d - 1
        doe == yoe * 365 + yoe \div 4 - yoe \div 100 + doy
    IN  era * 146097 + doe - 719468

SecondsPerHour == 3600

\* new Date(date).getTime() / 1000
getTime(date) ==
    DaysFromCivil(date) * SecondsPerDay
    + (IF Len(date) > 3 THEN date[4] * SecondsPerHour ELSE 0)

\* Math.ceil(a / b) for b > 0
Ceil(a, b) == -((-a) \div b)

\* Math.round(n / d) for d > 0: nearest integer, halves towards +infinity
Round(n, d) == (2 * n + d) \div (2 * d)

----------------------------------------------------------------------------
(* The pricing rule used when the property has none *)

base_price_per_night == 100
cleaning_fee == 25
pet_fee == 15
min_stay_nights == 2

\* property.property_pricing_rules?.[0] || { ... }
DefaultPricing ==
    [base_price_per_night |-> base_price_per_night, cleaning_fee |-> cleaning_fee,
     pet_fee |-> pet_fee, min_stay_nights |-> min_stay_nights]

----------------------------------------------------------------------------
(* The price calculation of BookingForm, made on every render *)

\* the nights of a stay counted with both its first and its last day
NightsInclusive(s, e) ==
    IF s # NoDate /\ e # NoDate
    THEN Ceil(getTime(e) - getTime(s), SecondsPerDay) + 1
    ELSE 0

Nights(s, e) ==
    IF s # NoDate /\ e # NoDate
    THEN Ceil(getTime(e) - getTime(s), SecondsPerDay)
    ELSE 0

BasePrice(s, e) == pricing.base_price_per_night * Nights(s, e)
\* pricing.cleaning_fee || 0
CleaningFee == IF pricing.cleaning_fee = 0 THEN 0 ELSE pricing.cleaning_fee
\* pets > 0 ? (pricing.pet_fee || 0) : 0
PetFee(p) == IF p > 0 /\ pricing.pet_fee # 0 THEN pricing.pet_fee ELSE 0
\* the service fee cut down to a whole number instead of rounded
ServiceFeeTruncated(s, e) == (BasePrice(s, e) * 12) \div 100
ServiceFee(s, e) == Round(BasePrice(s, e) * 12, 100)
TotalPrice(s, e, p) == BasePrice(s, e) + CleaningFee + PetFee(p) + ServiceFee(s, e)

nights == Nights(startDate, endDate)
totalPrice == TotalPrice(startDate, endDate, pets)

\* n.toFixed(2) of a whole number
toFixed(n) == ToString(n) \o ".00"

\* the Price Breakdown panel: rendered when nights > 0, the cleaning fee and
\* pet fee lines only when they are positive
NoBreakdown == <<>>
NoLine == ""
PriceBreakdown ==
    IF nights > 0
    THEN [nights |-> nights,
          basePrice |-> toFixed(BasePrice(startDate, endDate)),
          cleaningFee |-> IF CleaningFee > 0 THEN toFixed(CleaningFee) ELSE NoLine,
          petFee |-> IF PetFee(pets) > 0 THEN toFixed(PetFee(pets)) ELSE NoLine,
          serviceFee |-> toFixed(ServiceFee(startDate, endDate)),
          total |-> toFixed(totalPrice)]
    ELSE NoBreakdown

----------------------------------------------------------------------------
(* Values *)

Properties == {[berths |-> 2, pet_friendly |-> pf] : pf \in BOOLEAN}

NoBooking == 0
NoIntent == [id |-> 0, booking_id |-> 0, amount |-> 0]

\* error.message of a failed remote call ('' is a missing message)
RemoteMessages == {"", "Service unavailable"}
\* error.message of a failed check_availability call: the text of
\* data.error.message is the remote's own and can be any string
AvailabilityMessages ==
    RemoteMessages \cup {"Property is not available for selected dates"}
\* stripeError.message of a failed card confirmation
StripeMessages == {"", "Your card was declined."}

Toast(type, message) == [type |-> type, message |-> message]
NoToast == Toast("none", "")
\* error.message || fallback
OrElse(message, fallback) == IF message = "" THEN fallback ELSE message

\* handlePaymentSubmit when it is not running
IdlePay == [pc |-> "idle", booking_id |-> 0, amount |-> 0, intent |-> NoIntent]

\* what the form holds and shows, the text of the message left out
NoObs == <<>>
Obs(step, processing, intent, booking, toastType) ==
    <<step, processing, intent, booking, toastType>>

----------------------------------------------------------------------------
(* The other components of the application: the property detail page and the
   router, the useUserProfile hook, the media list of the property listing
   form. Each has a specification of its own below; the booking form leaves
   them as they are when not on screen *)

\* no value: undefined, or null
Undefined == "undefined"
NoLocation == [pathname |-> <<>>, search |-> <<>>]
NotMounted == [view |-> "none", propertyId |-> Undefined]
NoUser == "null"
NoProfile == [id |-> NoUser, user_type |-> "none"]
NoError == ""

elsewhere == <<id, checkIn, checkOut, guests, location, bookingPage,
               authUser, profile, loading, error, fetches, media, created>>

\* PropertyDetailPage and BookingPage are not on screen
PagesUnmounted ==
    /\ id = Undefined
    /\ checkIn = NoDate
    /\ checkOut = NoDate
    /\ guests = 2
    /\ location = NoLocation
    /\ bookingPage = NotMounted

\* no component using useUserProfile is on screen
ProfileUnmounted ==
    /\ authUser = NoUser
    /\ profile = NoProfile
    /\ loading = TRUE
    /\ error = NoError
    /\ fetches = <<>>

\* the property listing form is not on screen
ListingFormUnmounted ==
    /\ media = <<>>
    /\ created = 0

----------------------------------------------------------------------------
(* State after construction of BookingForm *)

Init ==
    /\ property \in Properties
    /\ pricing = DefaultPricing
    /\ user \in BOOLEAN
    /\ stripeReady = FALSE
    /\ mounted = TRUE
    /\ startDate \in Dates \cup {NoDate}
    /\ endDate \in Dates \cup {NoDate}
    /\ adults \in 1..MaxAdults
    /\ children \in 0..MaxChildren
    /\ infants = 0
    /\ pets = 0
    /\ specialRequests = ""
    /\ currentStep = 1
    /\ bookingData = NoBooking
    /\ paymentIntent = NoIntent
    /\ isProcessing = FALSE
    /\ checkAvailabilityMutation = <<>>
    /\ createBookingMutation = <<>>
    /\ pay = IdlePay
    /\ server = [bookings |-> 0, intents |-> 0]
    /\ toast = NoToast
    /\ outcome = "none"
    /\ declined = NoObs
    /\ PagesUnmounted
    /\ ProfileUnmounted
    /\ ListingFormUnmounted

fixed == <<property, pricing, user, elsewhere>>
stay == <<startDate, endDate, adults, children, infants, pets, specialRequests>>
flow == <<currentStep, bookingData, paymentIntent, isProcessing>>
calls == <<checkAvailabilityMutation, createBookingMutation, pay>>

\* remove the i-th element of a sequence
Remove(seq, i) == SubSeq(seq, 1, i - 1) \o SubSeq(seq, i + 1, Len(seq))

isPending(mutation) == Len(mutation) > 0

\* a step outside handlePaymentSubmit that shows `t`
Shows(t) == toast' = t /\ outcome' = "none" /\ declined' = NoObs
\* a step of handlePaymentSubmit that shows `t` and ends the call as `o`
Ends(t, o) == toast' = t /\ outcome' = o

----------------------------------------------------------------------------
(* Stripe.js finishes loading: useStripe() and useElements() become non-null *)

StripeLoaded ==
    /\ mounted /\ ~stripeReady
    /\ stripeReady' = TRUE
    /\ toast' = NoToast /\ outcome' = "none"
    /\ UNCHANGED <<fixed, mounted, stay, flow, calls, server, declined>>

----------------------------------------------------------------------------
(* Step 1: date inputs and Check Availability *)

SetStartDate ==
    /\ mounted /\ currentStep = 1
    /\ \E d \in Dates \cup {NoDate} : startDate' = d
    /\ Shows(NoToast)
    /\ UNCHANGED <<fixed, stripeReady, mounted, endDate, adults, children, infants,
                   pets, specialRequests, flow, calls, server>>

SetEndDate ==
    /\ mounted /\ currentStep = 1
    /\ \E d \in Dates \cup {NoDate} : endDate' = d
    /\ Shows(NoToast)
    /\ UNCHANGED <<fixed, stripeReady, mounted, startDate, adults, children, infants,
                   pets, specialRequests, flow, calls, server>>

DateSubmitEnabled ==
    startDate # NoDate /\ endDate # NoDate /\ ~isPending(checkAvailabilityMutation)

\* the handler without its test of the minimum stay
DateSubmitErrorNoMinimum ==
    IF startDate = NoDate \/ endDate = NoDate
    THEN Toast("error", "Please select check-in and check-out dates")
    ELSE IF getTime(startDate) >= getTime(endDate)
    THEN Toast("error", "Check-out date must be after check-in date")
    ELSE NoToast

\* the toast handleDateSubmit returns with, NoToast when it goes on to mutate()
DateSubmitError ==
    IF startDate = NoDate \/ endDate = NoDate
    THEN Toast("error", "Please select check-in and check-out dates")
    ELSE IF getTime(startDate) >= getTime(endDate)
    THEN Toast("error", "Check-out date must be after check-in date")
    ELSE IF nights < pricing.min_stay_nights
    THEN Toast("error", "Minimum stay is " \o ToString(pricing.min_stay_nights)
                            \o " nights")
    ELSE NoToast

handleDateSubmit ==
    /\ mounted /\ currentStep = 1 /\ DateSubmitEnabled
    /\ Shows(DateSubmitError)
    /\ checkAvailabilityMutation' =
         IF DateSubmitError = NoToast
         THEN Append(checkAvailabilityMutation, [action |-> "check_availability"])
         ELSE checkAvailabilityMutation
    /\ UNCHANGED <<fixed, stripeReady, mounted, stay, flow, createBookingMutation,
                   pay, server>>

\* onSuccess moving on to step 2 whatever the response says
checkAvailabilityOnSuccessAdvances ==
    /\ mounted
    /\ \E i \in 1..Len(checkAvailabilityMutation), available \in BOOLEAN :
         /\ checkAvailabilityMutation' = Remove(checkAvailabilityMutation, i)
         /\ IF available
            THEN Shows(Toast("success", "Property is available for your dates!"))
            ELSE Shows(Toast("error", "Property is not available for selected dates"))
    /\ currentStep' = 2
    /\ UNCHANGED <<fixed, stripeReady, mounted, stay, bookingData, paymentIntent,
                   isProcessing, createBookingMutation, pay, server>>

checkAvailabilityOnSuccess ==
    /\ mounted
    /\ \E i \in 1..Len(checkAvailabilityMutation), available \in BOOLEAN :
         /\ checkAvailabilityMutation' = Remove(checkAvailabilityMutation, i)
         /\ IF available
            THEN /\ Shows(Toast("success", "Property is available for your dates!"))
                 /\ currentStep' = 2
            ELSE /\ Shows(Toast("error", "Property is not available for selected dates"))
                 /\ UNCHANGED currentStep
    /\ UNCHANGED <<fixed, stripeReady, mounted, stay, bookingData, paymentIntent,
                   isProcessing, createBookingMutation, pay, server>>

checkAvailabilityOnError ==
    /\ mounted
    /\ \E i \in 1..Len(checkAvailabilityMutation), message \in AvailabilityMessages :
         /\ checkAvailabilityMutation' = Remove(checkAvailabilityMutation, i)
         /\ Shows(Toast("error", OrElse(message, "Failed to check availability")))
    /\ UNCHANGED <<fixed, stripeReady, mounted, stay, flow, createBookingMutation,
                   pay, server>>

----------------------------------------------------------------------------
(* Step 2: guest details, Back and Continue to Payment *)

SetAdults ==
    /\ mounted /\ currentStep = 2
    /\ \E n \in 1..MaxAdults : adults' = n
    /\ Shows(NoToast)
    /\ UNCHANGED <<fixed, stripeReady, mounted, startDate, endDate, children, infants,
                   pets, specialRequests, flow, calls, server>>

SetChildren ==
    /\ mounted /\ currentStep = 2
    /\ \E n \in 0..MaxChildren : children' = n
    /\ Shows(NoToast)
    /\ UNCHANGED <<fixed, stripeReady, mounted, startDate, endDate, adults, infants,
                   pets, specialRequests, flow, calls, server>>

SetInfants ==
    /\ mounted /\ currentStep = 2
    /\ \E n \in 0..MaxInfants : infants' = n
    /\ Shows(NoToast)
    /\ UNCHANGED <<fixed, stripeReady, mounted, startDate, endDate, adults, children,
                   pets, specialRequests, flow, calls, server>>

\* the select is disabled unless the property is pet friendly
SetPets ==
    /\ mounted /\ currentStep = 2 /\ property.pet_friendly
    /\ \E n \in 0..MaxPets : pets' = n
    /\ Shows(NoToast)
    /\ UNCHANGED <<fixed, stripeReady, mounted, startDate, endDate, adults, children,
                   infants, specialRequests, flow, calls, server>>

SetSpecialRequests ==
    /\ mounted /\ currentStep = 2
    /\ \E text \in {"", "Late arrival"} : specialRequests' = text
    /\ Shows(NoToast)
    /\ UNCHANGED <<fixed, stripeReady, mounted, startDate, endDate, adults, children,
                   infants, pets, flow, calls, server>>

BackToStep1 ==
    /\ mounted /\ currentStep = 2
    /\ currentStep' = 1
    /\ Shows(NoToast)
    /\ UNCHANGED <<fixed, stripeReady, mounted, stay, bookingData, paymentIntent,
                   isProcessing, calls, server>>

\* the button without its disabled attribute
BookingSubmitAlwaysEnabled == TRUE

BookingSubmitEnabled == ~isPending(createBookingMutation)

handleBookingSubmit ==
    /\ mounted /\ currentStep = 2 /\ BookingSubmitEnabled
    /\ IF ~user
       THEN /\ Shows(Toast("error", "Please log in to make a booking"))
            /\ mounted' = FALSE          \* navigate('/auth')
            /\ UNCHANGED createBookingMutation
       ELSE IF adults + children > property.berths
       THEN /\ Shows(Toast("error", "Property sleeps maximum "
                                      \o ToString(property.berths) \o " guests"))
            /\ UNCHANGED <<mounted, createBookingMutation>>
       ELSE /\ createBookingMutation' =
                 Append(createBookingMutation, [action |-> "create_booking"])
            /\ Shows(NoToast)
            /\ UNCHANGED mounted
    /\ UNCHANGED <<fixed, stripeReady, stay, flow, checkAvailabilityMutation, pay,
                   server>>

\* the remote creates a booking record with a new id
createBookingOnSuccess ==
    /\ mounted /\ server.bookings < MaxBookings
    /\ \E i \in 1..Len(createBookingMutation) :
         createBookingMutation' = Remove(createBookingMutation, i)
    /\ server' = [server EXCEPT !.bookings = @ + 1]
    /\ bookingData' = server.bookings + 1
    /\ Shows(Toast("success", "Booking created! Proceed to payment."))
    /\ currentStep' = 3
    /\ UNCHANGED <<fixed, stripeReady, mounted, stay, paymentIntent, isProcessing,
                   checkAvailabilityMutation, pay>>

\* onError moving on to the payment step as onSuccess does
createBookingOnErrorAdvances ==
    /\ mounted
    /\ \E i \in 1..Len(createBookingMutation), message \in RemoteMessages :
         /\ createBookingMutation' = Remove(createBookingMutation, i)
         /\ Shows(Toast("error", OrElse(message, "Failed to create booking")))
    /\ currentStep' = 3
    /\ UNCHANGED <<fixed, stripeReady, mounted, stay, bookingData, paymentIntent,
                   isProcessing, checkAvailabilityMutation, pay, server>>

createBookingOnError ==
    /\ mounted
    /\ \E i \in 1..Len(createBookingMutation), message \in RemoteMessages :
         /\ createBookingMutation' = Remove(createBookingMutation, i)
         /\ Shows(Toast("error", OrElse(message, "Failed to create booking")))
    /\ UNCHANGED <<fixed, stripeReady, mounted, stay, flow, checkAvailabilityMutation,
                   pay, server>>

----------------------------------------------------------------------------
(* Step 3: Back and Pay (handlePaymentSubmit) *)

\* the Back button dropping the stored intent
BackToStep2ClearsIntent ==
    /\ mounted /\ currentStep = 3
    /\ currentStep' = 2
    /\ paymentIntent' = NoIntent
    /\ Shows(NoToast)
    /\ UNCHANGED <<fixed, stripeReady, mounted, stay, bookingData, isProcessing,
                   calls, server>>

BackToStep2 ==
    /\ mounted /\ currentStep = 3
    /\ currentStep' = 2
    /\ Shows(NoToast)
    /\ UNCHANGED <<fixed, stripeReady, mounted, stay, bookingData, paymentIntent,
                   isProcessing, calls, server>>

PaymentSubmitEnabled == ~isProcessing /\ stripeReady

\* elements.getElement(CardElement): the element is rendered on step 3 only
cardElement == currentStep = 3

\* the handler asking for a new intent on every click
PaymentRequestAlwaysCreates ==
    [pc |-> "create_payment_intent", booking_id |-> bookingData,
     amount |-> totalPrice, intent |-> NoIntent]

\* the request handlePaymentSubmit sends first, from the state of the click
PaymentRequest ==
    IF paymentIntent = NoIntent
    THEN \* createPaymentIntentMutation.mutateAsync()
         [pc |-> "create_payment_intent", booking_id |-> bookingData,
          amount |-> totalPrice, intent |-> NoIntent]
    ELSE \* stripe.confirmCardPayment(paymentIntent.clientSecret, ...)
         [pc |-> "confirmCardPayment", booking_id |-> bookingData,
          amount |-> 0, intent |-> paymentIntent]

\* the click, up to the first await
handlePaymentSubmit ==
    /\ mounted /\ currentStep = 3 /\ PaymentSubmitEnabled
    /\ IF paymentIntent # NoIntent /\ ~cardElement
       THEN /\ Ends(Toast("error", "Card element not found"), "no_card_element")
            /\ UNCHANGED <<pay, isProcessing>>
       ELSE /\ pay' = PaymentRequest
            /\ isProcessing' = TRUE
            /\ Ends(NoToast, "none")
    /\ UNCHANGED <<fixed, stripeReady, mounted, stay, currentStep, bookingData,
                   paymentIntent, checkAvailabilityMutation, createBookingMutation,
                   server, declined>>

\* the handler going on to the card confirmation once the intent is there
createPaymentIntentOnSuccessContinues ==
    /\ mounted /\ pay.pc = "create_payment_intent" /\ server.intents < MaxIntents
    /\ server' = [server EXCEPT !.intents = @ + 1]
    /\ paymentIntent' = [id |-> server.intents + 1, booking_id |-> pay.booking_id,
                         amount |-> pay.amount]
    /\ Ends(Toast("success", "Ready to process payment"), "intent_created")
    /\ pay' = [pay EXCEPT !.pc = "confirmCardPayment", !.intent = paymentIntent']
    /\ UNCHANGED <<fixed, stripeReady, mounted, stay, currentStep, bookingData,
                   isProcessing, checkAvailabilityMutation, createBookingMutation,
                   declined>>

\* the remote creates an intent for the requested booking and amount
createPaymentIntentOnSuccess ==
    /\ mounted /\ pay.pc = "create_payment_intent" /\ server.intents < MaxIntents
    /\ server' = [server EXCEPT !.intents = @ + 1]
    /\ paymentIntent' = [id |-> server.intents + 1, booking_id |-> pay.booking_id,
                         amount |-> pay.amount]
    /\ Ends(Toast("success", "Ready to process payment"), "intent_created")
    /\ pay' = IdlePay
    /\ isProcessing' = FALSE
    /\ UNCHANGED <<fixed, stripeReady, mounted, stay, currentStep, bookingData,
                   checkAvailabilityMutation, createBookingMutation, declined>>

\* the catch block showing its own text whatever the error says
PaymentCatchOwnText(message, o) ==
    /\ Ends(Toast("error", "Payment failed"), o)
    /\ pay' = IdlePay
    /\ isProcessing' = FALSE
    /\ UNCHANGED <<fixed, stripeReady, mounted, stay, currentStep, bookingData,
                   paymentIntent, checkAvailabilityMutation, createBookingMutation,
                   server>>

\* the catch block of handlePaymentSubmit without the finally block
PaymentCatchNoFinally(message, o) ==
    /\ Ends(Toast("error", OrElse(message, "Payment failed")), o)
    /\ pay' = IdlePay
    /\ UNCHANGED <<fixed, stripeReady, mounted, stay, flow,
                   checkAvailabilityMutation, createBookingMutation, server>>

\* the catch block of handlePaymentSubmit, then its finally block
PaymentCatch(message, o) ==
    /\ Ends(Toast("error", OrElse(message, "Payment failed")), o)
    /\ pay' = IdlePay
    /\ isProcessing' = FALSE
    /\ UNCHANGED <<fixed, stripeReady, mounted, stay, currentStep, bookingData,
                   paymentIntent, checkAvailabilityMutation, createBookingMutation,
                   server>>

\* onError storing an intent as onSuccess does
createPaymentIntentOnErrorStores ==
    /\ mounted /\ pay.pc = "create_payment_intent"
    /\ \E message \in RemoteMessages :
         Ends(Toast("error", OrElse(message, "Payment failed")), "intent_failed")
    /\ paymentIntent' = [id |-> server.intents + 1, booking_id |-> pay.booking_id,
                         amount |-> pay.amount]
    /\ pay' = IdlePay
    /\ isProcessing' = FALSE
    /\ UNCHANGED <<fixed, stripeReady, mounted, stay, currentStep, bookingData,
                   checkAvailabilityMutation, createBookingMutation, server,
                   declined>>

\* onError toasts, mutateAsync rejects, the catch block toasts again
createPaymentIntentOnError ==
    /\ mounted /\ pay.pc = "create_payment_intent"
    /\ \E message \in RemoteMessages : PaymentCatch(message, "intent_failed")
    /\ UNCHANGED declined

\* stripe.confirmCardPayment resolves with an error
confirmCardPaymentError ==
    /\ mounted /\ pay.pc = "confirmCardPayment"
    /\ \E message \in StripeMessages : PaymentCatch(message, "declined")
    /\ declined' = Obs(currentStep', isProcessing', paymentIntent', bookingData',
                       toast'.type)

\* the handler without its test of confirmedPayment.status
confirmCardPaymentOtherConfirms ==
    /\ mounted /\ pay.pc = "confirmCardPayment"
    /\ Ends(Toast("success", "Payment successful! Booking confirmed!"),
            "not_succeeded")
    /\ currentStep' = 4
    /\ pay' = IdlePay
    /\ isProcessing' = FALSE
    /\ UNCHANGED <<fixed, stripeReady, mounted, stay, bookingData, paymentIntent,
                   checkAvailabilityMutation, createBookingMutation, server, declined>>

\* stripe.confirmCardPayment resolves without error, status not 'succeeded'
confirmCardPaymentOther ==
    /\ mounted /\ pay.pc = "confirmCardPayment"
    /\ Ends(NoToast, "not_succeeded")
    /\ pay' = IdlePay
    /\ isProcessing' = FALSE
    /\ UNCHANGED <<fixed, stripeReady, mounted, stay, currentStep, bookingData,
                   paymentIntent, checkAvailabilityMutation, createBookingMutation,
                   server, declined>>

\* status 'succeeded': confirm_payment is sent with the booking id of the click
confirmCardPaymentSucceeded ==
    /\ mounted /\ pay.pc = "confirmCardPayment"
    /\ pay' = [pay EXCEPT !.pc = "confirm_payment"]
    /\ Ends(NoToast, "none")
    /\ UNCHANGED <<fixed, stripeReady, mounted, stay, flow, checkAvailabilityMutation,
                   createBookingMutation, server, declined>>

confirmPaymentOnSuccess ==
    /\ mounted /\ pay.pc = "confirm_payment"
    /\ Ends(Toast("success", "Payment successful! Booking confirmed!"), "confirmed")
    /\ currentStep' = 4
    /\ pay' = IdlePay
    /\ isProcessing' = FALSE
    /\ UNCHANGED <<fixed, stripeReady, mounted, stay, bookingData, paymentIntent,
                   checkAvailabilityMutation, createBookingMutation, server, declined>>

confirmPaymentOnError ==
    /\ mounted /\ pay.pc = "confirm_payment"
    /\ \E message \in RemoteMessages : PaymentCatch(message, "mismatch")
    /\ UNCHANGED declined

----------------------------------------------------------------------------
(* Step 4: View My Bookings leaves the page *)

ViewMyBookings ==
    /\ mounted /\ currentStep = 4
    /\ mounted' = FALSE          \* navigate('/dashboard')
    /\ Shows(NoToast)
    /\ UNCHANGED <<fixed, stripeReady, stay, flow, calls, server>>

----------------------------------------------------------------------------

Next ==
    \/ StripeLoaded
    \/ SetStartDate \/ SetEndDate
    \/ handleDateSubmit
    \/ checkAvailabilityOnSuccess \/ checkAvailabilityOnError
    \/ SetAdults \/ SetChildren \/ SetInfants \/ SetPets \/ SetSpecialRequests
    \/ BackToStep1
    \/ handleBookingSubmit
    \/ createBookingOnSuccess \/ createBookingOnError
    \/ BackToStep2
    \/ handlePaymentSubmit
    \/ createPaymentIntentOnSuccess \/ createPaymentIntentOnError
    \/ confirmCardPaymentError \/ confirmCardPaymentOther
    \/ confirmCardPaymentSucceeded
    \/ confirmPaymentOnSuccess \/ confirmPaymentOnError
    \/ ViewMyBookings

Spec == Init /\ [][Next]_vars

----------------------------------------------------------------------------
(* A visit that keeps the dates and guests of the page's URL: useState takes
   start_date, end_date, adults and children from the query parameters, the
   page passes the property's first pricing rule or the default one, and the
   visitor goes forward through the steps up to the payment intent *)

PricingRules ==
    {DefaultPricing,
     [base_price_per_night |-> 45, cleaning_fee |-> 0, pet_fee |-> 10,
      min_stay_nights |-> 1],
     [base_price_per_night |-> 75, cleaning_fee |-> 30, pet_fee |-> 0,
      min_stay_nights |-> 3]}

UrlInit ==
    /\ property \in Properties
    /\ pricing \in PricingRules
    /\ user \in BOOLEAN
    /\ stripeReady = FALSE
    /\ mounted = TRUE
    /\ startDate \in UrlDates \cup {NoDate}
    /\ endDate \in UrlDates \cup {NoDate}
    /\ adults \in 1..MaxAdults
    /\ children \in 0..MaxChildren
    /\ infants = 0
    /\ pets = 0
    /\ specialRequests = ""
    /\ currentStep = 1
    /\ bookingData = NoBooking
    /\ paymentIntent = NoIntent
    /\ isProcessing = FALSE
    /\ checkAvailabilityMutation = <<>>
    /\ createBookingMutation = <<>>
    /\ pay = IdlePay
    /\ server = [bookings |-> 0, intents |-> 0]
    /\ toast = NoToast
    /\ outcome = "none"
    /\ declined = NoObs
    /\ PagesUnmounted
    /\ ProfileUnmounted
    /\ ListingFormUnmounted

UrlNext ==
    \/ StripeLoaded
    \/ handleDateSubmit
    \/ checkAvailabilityOnSuccess \/ checkAvailabilityOnError
    \/ SetPets
    \/ handleBookingSubmit
    \/ createBookingOnSuccess \/ createBookingOnError
    \/ handlePaymentSubmit
    \/ createPaymentIntentOnSuccess \/ createPaymentIntentOnError

UrlSpec == UrlInit /\ [][UrlNext]_vars

----------------------------------------------------------------------------
(* The same visit with the page's property query refetching: the query goes
   stale after five minutes and is fetched again on window focus or reconnect;
   BookingPage then renders BookingForm, which keeps its state, with the
   property and the pricing rule as the owner has them now *)

propertyRefetched ==
    /\ mounted
    /\ \E p \in Properties, r \in PricingRules :
         /\ <<p, r>> # <<property, pricing>>
         /\ property' = p
         /\ pricing' = r
    /\ Shows(NoToast)
    /\ UNCHANGED <<user, elsewhere, stripeReady, mounted, stay, flow, calls, server>>

RefetchNext == UrlNext \/ propertyRefetched

RefetchSpec == UrlInit /\ [][RefetchNext]_vars

----------------------------------------------------------------------------
(* From the property detail page to the booking page: handleBookNow writes the
   booking URL into window.location, the router of App matches it, and
   BookingPage renders for the parameters it reads. A pathname is the sequence
   of its segments, a query string the sequence of its <<name, value>> pairs *)

MaxBerths == 3          \* property.berths of the property on the detail page
PropertyIds == {"p1", "p2"}

\* the routes of App that bind a parameter
Routes ==
    {[path |-> "property", param |-> "id", element |-> "PropertyDetailPage"],
     [path |-> "booking", param |-> "id", element |-> "BookingPage"]}

matchRoute(pathname) == CHOOSE r \in Routes : r.path = pathname[1]

\* useParams(): the parameters the matched route binds, by name
useParams(pathname) == [n \in {matchRoute(pathname).param} |-> pathname[2]]

\* params[name]: undefined for a name the route does not bind
Param(params, name) == IF name \in DOMAIN params THEN params[name] ELSE Undefined

\* searchParams.get(name): <<value>> of the first pair of that name, <<>> for null
searchParamsGet(search, name) ==
    LET hits == {i \in 1..Len(search) : search[i][1] = name}
    IN  IF hits = {} THEN <<>>
        ELSE <<search[CHOOSE i \in hits : \A j \in hits : i <= j][2]>>

\* got || fallback, '' being falsy
OrDefault(got, empty, fallback) ==
    IF got = <<>> \/ got[1] = empty THEN fallback ELSE got[1]

NaN == -1
\* parseInt of a string of digits, NaN for a string that starts with none
parseInt(str) ==
    IF \E n \in 0..99 : ToString(n) = str
    THEN CHOOSE n \in 0..99 : ToString(n) = str
    ELSE NaN

\* the initial state BookingForm takes from the query string
BookingFormInitial(search) ==
    [startDate |-> OrDefault(searchParamsGet(search, "start_date"), NoDate, NoDate),
     endDate |-> OrDefault(searchParamsGet(search, "end_date"), NoDate, NoDate),
     adults |-> parseInt(OrDefault(searchParamsGet(search, "adults"), "", "2")),
     children |-> parseInt(OrDefault(searchParamsGet(search, "children"), "", "0"))]

OnDetailPage ==
    /\ bookingPage = NotMounted
    /\ matchRoute(location.pathname).element = "PropertyDetailPage"

\* everything of the booking form but the property and the toast
bookingForm == <<pricing, stripeReady, mounted, stay, flow, calls, server, outcome,
                 declined>>
profileHook == <<authUser, profile, loading, error, fetches>>
listingForm == <<media, created>>

\* BookingForm is not on screen
BookingFormUnmounted ==
    /\ property = [berths |-> MaxBerths, pet_friendly |-> TRUE]
    /\ pricing = DefaultPricing
    /\ stripeReady = FALSE
    /\ mounted = FALSE
    /\ startDate = NoDate
    /\ endDate = NoDate
    /\ adults = 2
    /\ children = 0
    /\ infants = 0
    /\ pets = 0
    /\ specialRequests = ""
    /\ currentStep = 1
    /\ bookingData = NoBooking
    /\ paymentIntent = NoIntent
    /\ isProcessing = FALSE
    /\ checkAvailabilityMutation = <<>>
    /\ createBookingMutation = <<>>
    /\ pay = IdlePay
    /\ server = [bookings |-> 0, intents |-> 0]
    /\ toast = NoToast
    /\ outcome = "none"
    /\ declined = NoObs

NavInit ==
    /\ BookingFormUnmounted
    /\ user \in BOOLEAN
    /\ id \in PropertyIds
    /\ checkIn = NoDate
    /\ checkOut = NoDate
    /\ guests = 2
    /\ location = [pathname |-> <<"property", id>>, search |-> <<>>]
    /\ bookingPage = NotMounted
    /\ ProfileUnmounted
    /\ ListingFormUnmounted

setCheckIn ==
    /\ OnDetailPage
    /\ \E value \in Dates \cup {NoDate} :
         /\ value # checkIn
         /\ checkIn' = value
    /\ toast' = NoToast
    /\ UNCHANGED <<property, user, bookingForm, id, checkOut, guests, location,
                   bookingPage, profileHook, listingForm>>

setCheckOut ==
    /\ OnDetailPage
    /\ \E value \in Dates \cup {NoDate} :
         /\ value # checkOut
         /\ checkOut' = value
    /\ toast' = NoToast
    /\ UNCHANGED <<property, user, bookingForm, id, checkIn, guests, location,
                   bookingPage, profileHook, listingForm>>

setGuests ==
    /\ OnDetailPage
    /\ \E num \in 1..property.berths :
         /\ num # guests
         /\ guests' = num
    /\ toast' = NoToast
    /\ UNCHANGED <<property, user, bookingForm, id, checkIn, checkOut, location,
                   bookingPage, profileHook, listingForm>>

\* the page the assignment to window.location.href loads replaces the detail
\* page; id, checkIn, checkOut and guests stay as they were at the press
handleBookNow ==
    /\ OnDetailPage
    /\ IF ~user
       THEN /\ toast' = Toast("error", "Please sign in to make a booking")
            /\ UNCHANGED location
       ELSE IF checkIn = NoDate \/ checkOut = NoDate
       THEN /\ toast' = Toast("error", "Please select your dates")
            /\ UNCHANGED location
       ELSE /\ location' =
                 [pathname |-> <<"booking", id>>,
                  search |-> <<<<"checkin", checkIn>>, <<"checkout", checkOut>>,
                               <<"guests", ToString(guests)>>>>]
            /\ toast' = NoToast
    /\ UNCHANGED <<property, user, bookingForm, id, checkIn, checkOut, guests,
                   bookingPage, profileHook, listingForm>>

\* BookingPage renders for the location and its property query settles: the
\* query runs only for a defined propertyId, and without a property the page
\* shows 'Property Not Found' in place of the form
BookingPageMount ==
    /\ bookingPage = NotMounted
    /\ matchRoute(location.pathname).element = "BookingPage"
    /\ LET propertyId == Param(useParams(location.pathname), "propertyId")
           enabled == propertyId # Undefined
           initial == BookingFormInitial(location.search)
       IN  \E found \in (IF enabled THEN BOOLEAN ELSE {FALSE}) :
             IF found
             THEN /\ bookingPage' = [view |-> "BookingForm", propertyId |-> propertyId]
                  /\ property' \in Properties
                  /\ mounted' = TRUE
                  /\ startDate' = initial.startDate
                  /\ endDate' = initial.endDate
                  /\ adults' = initial.adults
                  /\ children' = initial.children
             ELSE /\ bookingPage' =
                       [view |-> "Property Not Found", propertyId |-> propertyId]
                  /\ UNCHANGED <<property, mounted, startDate, endDate, adults,
                                 children>>
    /\ toast' = NoToast
    /\ UNCHANGED <<pricing, user, stripeReady, infants, pets, specialRequests, flow,
                   calls, server, outcome, declined, id, checkIn, checkOut, guests,
                   location, profileHook, listingForm>>

NavNext ==
    \/ setCheckIn \/ setCheckOut \/ setGuests
    \/ handleBookNow
    \/ BookingPageMount

NavSpec == NavInit /\ [][NavNext]_vars

----------------------------------------------------------------------------
(* useUserProfile under AuthProvider: every change of the user runs the hook's
   effect, which starts fetchProfile for the user of that render; the profiles
   query of a call resolves at any later time, in any order with the others *)

MaxFetches == 3         \* profiles queries in flight at once
Users == {"u1", "u2"}

\* the row of the profiles table with that id
Profiles(u) == [id |-> u, user_type |-> IF u = "u1" THEN "owner" ELSE "guest"]
\* user.user_metadata, as signUp wrote it
user_metadata(u) == [user_type |-> Profiles(u).user_type]

isOwner ==
    \/ profile.user_type = "owner"
    \/ authUser # NoUser /\ user_metadata(authUser).user_type = "owner"

pages == <<id, checkIn, checkOut, guests, location, bookingPage>>

\* the hook's state after the effect of the first render has run
ProfileInit ==
    /\ BookingFormUnmounted
    /\ PagesUnmounted
    /\ ListingFormUnmounted
    /\ authUser \in Users \cup {NoUser}
    /\ user = (authUser # NoUser)
    /\ profile = NoProfile
    /\ error = NoError
    /\ loading = (authUser # NoUser)
    /\ fetches = IF authUser = NoUser THEN <<>> ELSE <<authUser>>

\* setUser of AuthProvider, from loadUser or from the auth listener, and the
\* effect of useUserProfile that the render with the new user runs: a session
\* carries a new user object, so the effect runs again for the same user too
onAuthStateChange ==
    /\ \E u \in Users \cup {NoUser} :
         /\ ~(u = NoUser /\ authUser = NoUser)
         /\ authUser' = u
         /\ user' = (u # NoUser)
         /\ IF u = NoUser
            THEN /\ profile' = NoProfile
                 /\ loading' = FALSE
                 /\ UNCHANGED <<error, fetches>>
            ELSE /\ Len(fetches) < MaxFetches
                 /\ loading' = TRUE
                 /\ error' = NoError
                 /\ fetches' = Append(fetches, u)
                 /\ UNCHANGED profile
    /\ UNCHANGED <<property, bookingForm, toast, pages, listingForm>>

\* the profiles query of one fetchProfile call resolves, with the row or with
\* an error, and the call runs to its end
fetchProfileResolved ==
    /\ \E i \in 1..Len(fetches), failed \in BOOLEAN :
         /\ IF failed
            THEN /\ error' = "Failed to fetch profile"
                 /\ profile' = NoProfile
            ELSE /\ profile' = Profiles(fetches[i])
                 /\ UNCHANGED error
         /\ loading' = FALSE
         /\ fetches' = Remove(fetches, i)
    /\ UNCHANGED <<property, user, bookingForm, toast, pages, authUser, listingForm>>

ProfileNext == onAuthStateChange \/ fetchProfileResolved

ProfileSpec == ProfileInit /\ [][ProfileNext]_vars

----------------------------------------------------------------------------
(* The media list of the property listing form: files dropped or selected,
   items removed, an item made the primary one *)

MaxDrop == 2            \* files of one drop or selection
MaxFiles == 4           \* files added during the visit

\* file.type up to its first '/'
FileTypes == {"image", "video", "application"}

Drops == UNION {[1..n -> FileTypes] : n \in 1..MaxDrop}

handleFiles ==
    /\ \E files \in Drops :
         LET validFiles == SelectSeq(files, LAMBDA type : type \in {"image", "video"})
             newMedia == [i \in 1..Len(validFiles) |->
                             [id |-> created + i,
                              type |-> IF validFiles[i] = "video" THEN "video"
                                       ELSE "image",
                              isPrimary |-> Len(media) = 0]]
         IN  /\ created + Len(validFiles) <= MaxFiles
             /\ toast' = IF Len(validFiles) # Len(files)
                         THEN Toast("error", "Only image and video files are allowed")
                         ELSE NoToast
             /\ media' = media \o newMedia
             /\ created' = created + Len(validFiles)
    /\ UNCHANGED <<property, user, bookingForm, pages, profileHook>>

removeMedia ==
    /\ \E i \in 1..Len(media) :
         LET updated == SelectSeq(media, LAMBDA m : m.id # media[i].id)
         IN  media' = IF Len(updated) > 0
                         /\ ~\E j \in 1..Len(updated) : updated[j].isPrimary
                      THEN [updated EXCEPT ![1].isPrimary = TRUE]
                      ELSE updated
    /\ toast' = NoToast
    /\ UNCHANGED <<property, user, bookingForm, pages, profileHook, created>>

setPrimaryMedia ==
    /\ \E i \in 1..Len(media) :
         /\ ~media[i].isPrimary
         /\ media' = [j \in 1..Len(media) |->
                         [media[j] EXCEPT !.isPrimary = (media[j].id = media[i].id)]]
    /\ toast' = NoToast
    /\ UNCHANGED <<property, user, bookingForm, pages, profileHook, created>>

MediaInit ==
    /\ BookingFormUnmounted
    /\ user = TRUE
    /\ PagesUnmounted
    /\ ProfileUnmounted
    /\ media = <<>>
    /\ created = 0

MediaNext == handleFiles \/ removeMedia \/ setPrimaryMedia

MediaSpec == MediaInit /\ [][MediaNext]_vars

----------------------------------------------------------------------------
(* Properties of the booking flow *)

\* a card confirmation is submitted in this step
SubmitsCard == pay.pc = "idle" /\ pay'.pc = "confirmCardPayment"

\* remote mutating calls in flight
MutatingInFlight ==
    Len(createBookingMutation)
    + (IF pay.pc \in {"create_payment_intent", "confirm_payment"} THEN 1 ELSE 0)

\* C1: whenever a card confirmation is submitted, the amount the held intent was
\* created for is the total computed from the current dates and pet count.
C1_StaleTotalNeverCharged ==
    [][SubmitsCard => pay'.intent.amount = totalPrice]_vars

\* C2: what the form holds and shows after a confirmation mismatch (provider
\* succeeded, confirm_payment failed) differs, in more than the message text,
\* from what it held and showed after a declined card.
C2_MismatchDistinctFromDecline ==
    (outcome = "mismatch" /\ declined # NoObs)
        => Obs(currentStep, isProcessing, paymentIntent, bookingData, toast.type)
               # declined

\* C3: after a confirmation mismatch no card confirmation is submitted again;
\* in particular the step that follows the mismatch submits none.
C3_NoRetryAfterMismatch ==
    [][outcome = "mismatch" => ~SubmitsCard]_vars

\* C4: once a booking record is stored, the booking id held by the flow never
\* changes.
C4_BookingIdFrozen ==
    [][bookingData # NoBooking => bookingData' = bookingData]_vars

\* C5: at no time are two remote mutating calls (create_booking,
\* create_payment_intent, confirm_payment) in flight together.
C5_OneMutatingCallInFlight == MutatingInFlight <= 1

\* C6: the current step changes only by 1->2, 2->3, 3->4, 2->1 or 3->2.
C6_StepsLinear ==
    [][currentStep' # currentStep =>
         <<currentStep, currentStep'>> \in
             {<<1, 2>>, <<2, 3>>, <<3, 4>>, <<2, 1>>, <<3, 2>>}]_vars

\* C7: once the current step is 4 it never changes again.
C7_ConfirmedTerminal ==
    [][currentStep = 4 => currentStep' = 4]_vars

\* C8: while a create_booking call is in flight no second one is started: at
\* most one create_booking request is in flight at any time, also after Back to
\* step 1 and a new availability check have shown step 2 again.
C8_SingleFlightCreateBooking == Len(createBookingMutation) <= 1

\* step 2 is shown again, after a new availability check, with the
\* create_booking call still in flight and the submit action disabled
C8_Witness ==
    /\ currentStep = 2
    /\ Len(createBookingMutation) = 1
    /\ toast = Toast("success", "Property is available for your dates!")
    /\ ~BookingSubmitEnabled

\* C9: the flow is at step 3 or 4, or has a create_payment_intent or
\* confirm_payment request in flight, only after a create_booking call has
\* succeeded, and each such request carries a booking id the remote returned.
C9_PaymentOnlyForCreatedBooking ==
    /\ currentStep \in {3, 4} => server.bookings >= 1
    /\ pay.pc \in {"create_payment_intent", "confirm_payment"}
         => pay.booking_id \in 1..server.bookings

C9_Witness ==
    /\ pay.pc = "confirm_payment"
    /\ pay.booking_id = 1
    /\ server.bookings = 2

\* C10: the step becomes 4 only in the step in which confirm_payment returns
\* without error to a submission whose card confirmation succeeded; a submission
\* that ends any other way leaves the step below 4.
C10_ConfirmedOnlyAfterBothSucceed ==
    [][/\ (currentStep # 4 /\ currentStep' = 4)
            => (pay.pc = "confirm_payment" /\ outcome' = "confirmed")
       /\ outcome' \in {"intent_created", "intent_failed", "declined",
                        "not_succeeded", "mismatch"}
            => (currentStep' = currentStep /\ currentStep' < 4)]_vars

C10_Witness == currentStep = 4 /\ outcome = "confirmed"

\* Pay is clicked in this step and the handler sends its first request
StartsPayment == pay.pc = "idle" /\ pay'.pc # "idle"

\* C11: create_payment_intent succeeds at most once in the flow, hence at most
\* once for any booking id, and a Pay click made while an intent is stored (as
\* after a failed card confirmation) submits that intent's client secret to the
\* provider and sends no create_payment_intent.
C11_OneIntentPerBooking ==
    [][/\ server'.intents <= 1
       /\ (StartsPayment /\ paymentIntent # NoIntent)
            => (pay'.pc = "confirmCardPayment" /\ pay'.intent = paymentIntent)]_vars

\* Pay clicked again after a declined card, with the one intent created so far
C11_Witness ==
    /\ pay.pc = "confirmCardPayment"
    /\ declined # NoObs
    /\ pay.intent = paymentIntent
    /\ server.intents = 1

\* a create_booking request is issued in this step
IssuesCreateBooking == Len(createBookingMutation') > Len(createBookingMutation)

\* the stay held by the form satisfies the StayRequest invariants
StayValid ==
    /\ startDate # NoDate /\ endDate # NoDate
    /\ getTime(endDate) > getTime(startDate)
    /\ nights >= pricing.min_stay_nights
    /\ adults + children <= property.berths

\* C12: whenever a create_booking request is issued, the stay it carries (the
\* dates and guests the form holds at that moment) has both dates present, the
\* end date after the start date, at least min_stay_nights nights and no more
\* adults and children than the property has berths.
C12_CreateBookingStayValid ==
    [][IssuesCreateBooking => StayValid]_vars

\* the options of the Pets select
PetOptions == 0..3

\* n is the ceiling of a / b, for b > 0
IsCeiling(n, a, b) == (n - 1) * b < a /\ a <= n * b

\* f is n / d rounded to the nearest integer, halves rounded up, for d > 0
IsRoundedHalfUp(f, n, d) == 2 * d * f - d <= 2 * n /\ 2 * n < 2 * d * f + d

\* the total of the stay held by the form with p pets, by the stated formula
StatedTotal(p) ==
    BasePrice(startDate, endDate) + pricing.cleaning_fee
    + (IF p > 0 THEN pricing.pet_fee ELSE 0) + ServiceFee(startDate, endDate)

ExampleStay ==
    /\ startDate = <<2025, 6, 1>> /\ endDate = <<2025, 6, 4>>
    /\ pricing.base_price_per_night = 100
    /\ pricing.cleaning_fee = 25
    /\ pricing.pet_fee = 15

\* C14: from 2025-06-01 to 2025-06-04 at 100 per night with a cleaning fee of
\* 25, nights is 3, basePrice 300, serviceFee 36 and the total 361 without pets;
\* with one pet and a pet fee of 15 the total is 376.
C14_WorkedExample ==
    ExampleStay =>
        /\ nights = 3
        /\ BasePrice(startDate, endDate) = 300
        /\ ServiceFee(startDate, endDate) = 36
        /\ TotalPrice(startDate, endDate, 0) = 361
        /\ TotalPrice(startDate, endDate, 1) = 376
        /\ totalPrice = (IF pets = 0 THEN 361 ELSE 376)

\* the example's stay with one pet chosen and its total on the panel
C14_Witness ==
    /\ ExampleStay
    /\ pets = 1
    /\ totalPrice = 376
    /\ PriceBreakdown.total = "376.00"

\* C15: for a stay (both dates given) whose nights is below the rule's
\* min_stay_nights, no price breakdown is produced: the panel shows no
\* basePrice, serviceFee or total.
C15_NoBreakdownForShortStay ==
    (startDate # NoDate /\ endDate # NoDate /\ nights < pricing.min_stay_nights)
        => PriceBreakdown = NoBreakdown

\* the lowest-numbered rule of the pre-submission validation that the form's
\* stay violates, 0 when it violates none
FirstViolatedRule ==
    IF startDate = NoDate \/ endDate = NoDate THEN 1
    ELSE IF getTime(endDate) <= getTime(startDate) THEN 2
    ELSE IF nights < pricing.min_stay_nights THEN 3
    ELSE IF adults + children > property.berths THEN 4
    ELSE IF pets > 0 /\ ~property.pet_friendly THEN 5
    ELSE 0

\* the rule whose violation a toast reports, 0 for any other toast
RuleReported(t) ==
    IF t = Toast("error", "Please select check-in and check-out dates") THEN 1
    ELSE IF t = Toast("error", "Check-out date must be after check-in date") THEN 2
    ELSE IF t = Toast("error", "Minimum stay is "
                                  \o ToString(pricing.min_stay_nights) \o " nights")
    THEN 3
    ELSE IF t = Toast("error", "Property sleeps maximum "
                                  \o ToString(property.berths) \o " guests")
    THEN 4
    ELSE 0

\* C16: a validation error shown by a step is the error of the lowest-numbered
\* rule the stay violates at that step, in the order dates present, end after
\* start, minimum stay, capacity, pets only where allowed; and a create_booking
\* request is issued only for a stay that violates none of the five rules.
C16_FirstViolatedRuleWins ==
    [][/\ RuleReported(toast') # 0 => RuleReported(toast') = FirstViolatedRule
       /\ IssuesCreateBooking => FirstViolatedRule = 0]_vars

\* this step starts no remote call
NoRemoteCallIssued ==
    /\ checkAvailabilityMutation' = checkAvailabilityMutation
    /\ createBookingMutation' = createBookingMutation
    /\ pay' = pay

\* C17: when Check Availability is handled for a stay with a missing date, an
\* end date not after the start date or fewer nights than the minimum, or
\* Continue to Payment for more adults and children than berths, the handler
\* starts no remote call, leaves the current step as it is and shows an error.
C17_LocalValidationBlocks ==
    [][(\/ handleDateSubmit /\ FirstViolatedRule \in {1, 2, 3}
        \/ handleBookingSubmit /\ adults + children > property.berths)
       => /\ NoRemoteCallIssued
          /\ currentStep' = currentStep
          /\ toast'.type = "error"]_vars

\* Check Availability was refused for a stay shorter than the minimum
C17_Witness ==
    /\ toast = Toast("error", "Minimum stay is "
                                \o ToString(pricing.min_stay_nights) \o " nights")
    /\ nights < pricing.min_stay_nights
    /\ currentStep = 1
    /\ checkAvailabilityMutation = <<>>

Available == Toast("success", "Property is available for your dates!")
Unavailable == Toast("error", "Property is not available for selected dates")

\* C18: the step changes from 1 to 2 only in the step that handles a
\* check_availability response with available = true; a response with
\* available = false leaves the step as it is and takes its request out of
\* flight without starting another, and a check_availability request is only
\* ever started by the Check Availability handler.
C18_AvailabilityGate ==
    [][/\ (currentStep = 1 /\ currentStep' = 2)
            => (checkAvailabilityOnSuccess /\ toast' = Available)
       /\ toast' = Unavailable
            => /\ currentStep' = currentStep
               /\ Len(checkAvailabilityMutation')
                    = Len(checkAvailabilityMutation) - 1
       /\ Len(checkAvailabilityMutation') > Len(checkAvailabilityMutation)
            => handleDateSubmit]_vars

\* the response said unavailable: still on step 1, nothing in flight
C18_Witness ==
    /\ currentStep = 1
    /\ toast = Unavailable
    /\ checkAvailabilityMutation = <<>>

\* C19: the step that handles a failed check_availability call shows something
\* other than what a response with available = false shows, whatever the
\* error, and leaves the current step as it is.
C19_FailureDistinctFromUnavailable ==
    [][checkAvailabilityOnError
         => (toast' # Unavailable /\ currentStep' = currentStep)]_vars

\* a failed payment call (create_payment_intent, card confirmation or
\* confirm_payment) is handled in this step
PaymentCallFails ==
    createPaymentIntentOnError \/ confirmCardPaymentError \/ confirmPaymentOnError

\* C20 as stated: the step that handles a failed remote call ends on the step
\* the call is started from (1 for check_availability, 2 for create_booking, 3
\* for the payment calls), changes no entered field, and leaves the submit
\* control of that step enabled (for step 1, while both dates are filled in).
C20_FailureReturnsToStartStep ==
    [][/\ checkAvailabilityOnError
            => /\ currentStep' = 1 /\ stay' = stay
               /\ (startDate # NoDate /\ endDate # NoDate) => DateSubmitEnabled'
       /\ createBookingOnError
            => (currentStep' = 2 /\ stay' = stay /\ BookingSubmitEnabled')
       /\ PaymentCallFails
            => (currentStep' = 3 /\ stay' = stay /\ PaymentSubmitEnabled')]_vars

\* C20, amended: the step that handles a failed remote call leaves the current
\* step where it is at that moment (which is the step the call was started
\* from unless the visitor has used Back meanwhile), changes no entered field,
\* and leaves the submit control of the call's step enabled (for step 1, while
\* both dates are filled in).
C20_FailureKeepsStepAndData ==
    [][/\ checkAvailabilityOnError
            => /\ currentStep' = currentStep /\ stay' = stay
               /\ (startDate # NoDate /\ endDate # NoDate) => DateSubmitEnabled'
       /\ createBookingOnError
            => (currentStep' = currentStep /\ stay' = stay /\ BookingSubmitEnabled')
       /\ PaymentCallFails
            => (currentStep' = currentStep /\ stay' = stay
                /\ PaymentSubmitEnabled')]_vars

\* confirm_payment has failed: still on step 3, the stay as it was, Pay enabled
C20_Witness ==
    /\ outcome = "mismatch"
    /\ currentStep = 3
    /\ toast.type = "error"
    /\ PaymentSubmitEnabled

ProviderError(m) == pay.pc = "confirmCardPayment" /\ PaymentCatch(m, "declined")

\* the step keeps the stored intent and the current step and enables Pay
KeepsIntentAndStep ==
    /\ paymentIntent' = paymentIntent /\ paymentIntent' # NoIntent
    /\ currentStep' = currentStep
    /\ PaymentSubmitEnabled'

\* C22 as stated: when the provider answers a card confirmation with an error,
\* the stored intent and the current step are kept, Pay is enabled again and
\* the message shown is exactly the provider's message.
C22_DeclineShownVerbatim ==
    [][\A m \in StripeMessages :
         ProviderError(m) => (KeepsIntentAndStep /\ toast' = Toast("error", m))]_vars

\* C22, amended: when the provider answers a card confirmation with an error,
\* the stored intent and the current step are kept, Pay is enabled again and
\* the message shown is exactly the provider's message when it has one, and
\* 'Payment failed' when the error carries no message.
C22_DeclineKeepsIntent ==
    [][\A m \in StripeMessages :
         ProviderError(m)
           => /\ KeepsIntentAndStep
              /\ toast' = Toast("error", IF m = "" THEN "Payment failed" ELSE m)]_vars

\* the card was declined: the provider's text is shown on step 3, the intent
\* is still stored and Pay is enabled
C22_Witness ==
    /\ outcome = "declined"
    /\ toast = Toast("error", "Your card was declined.")
    /\ currentStep = 3
    /\ paymentIntent # NoIntent
    /\ PaymentSubmitEnabled

\* C23: every step in which a remote call of the flow ends without its success
\* outcome (a failed check_availability, create_booking, create_payment_intent
\* or confirm_payment, a card confirmation answered with an error or with a
\* status other than 'succeeded') shows an error message.
C23_NoSilentFailure ==
    [][(\/ checkAvailabilityOnError
        \/ createBookingOnError
        \/ PaymentCallFails
        \/ confirmCardPaymentOther)
       => toast'.type = "error"]_vars

\* C24: a Back step, from step 3 to step 2 or from step 2 to step 1, changes
\* the current step and leaves the dates, the guests, the special requests,
\* the stored booking record and the stored payment intent as they are.
C24_BackChangesOnlyStep ==
    [][(BackToStep1 \/ BackToStep2)
       => /\ currentStep' = currentStep - 1
          /\ stay' = stay
          /\ bookingData' = bookingData
          /\ paymentIntent' = paymentIntent]_vars

\* back on step 1 with a pet, a request, a booking and an intent still held
C24_Witness ==
    /\ currentStep = 1
    /\ pets = 1 /\ specialRequests = "Late arrival"
    /\ bookingData # NoBooking
    /\ paymentIntent # NoIntent
    /\ toast = NoToast

\* C25: a Pay click made with no intent stored sends create_payment_intent
\* only; when that call ends, with an intent or with a failure, the handler
\* returns without submitting card details; card details are submitted only at
\* a click that finds an intent stored, with that intent.
C25_OneTransitionPerInvocation ==
    [][/\ (StartsPayment /\ paymentIntent = NoIntent)
            => pay'.pc = "create_payment_intent"
       /\ (pay.pc = "create_payment_intent" /\ pay'.pc # pay.pc)
            => (pay' = IdlePay /\ ~isProcessing')
       /\ (pay'.pc = "confirmCardPayment" /\ pay.pc # "confirmCardPayment")
            => (pay.pc = "idle" /\ paymentIntent # NoIntent
                /\ pay'.intent = paymentIntent)]_vars

\* the invocation that asked for the intent has returned: the intent is stored,
\* no card has been submitted and Pay waits for another click
C25_Witness ==
    /\ outcome = "intent_created"
    /\ paymentIntent # NoIntent
    /\ pay = IdlePay
    /\ ~isProcessing

\* C26: a confirm_payment request in flight carries the booking id the
\* confirmed intent was created for, and at step 4 the booking reference shown
\* (the stored booking record's id) is the booking id of the stored intent.
C26_ConfirmedBookingIsIntentBooking ==
    /\ pay.pc = "confirm_payment" => pay.booking_id = pay.intent.booking_id
    /\ currentStep = 4 => bookingData = paymentIntent.booking_id

\* C27: in every state of the booking form, pets > 0 only for a pet-friendly
\* property, and so a create_booking request is only issued with pets > 0 for a
\* property that allows pets.
C27_PetsOnlyWherePetFriendly ==
    [][/\ pets' > 0 => property'.pet_friendly
       /\ (IssuesCreateBooking /\ pets > 0) => property.pet_friendly]_vars

----------------------------------------------------------------------------
\* C28: once the booking page has rendered for the URL that Book Now wrote, it
\* has read the property id of the detail page, the initial state the booking
\* form takes from that URL holds the dates picked as start and end date and
\* the guests picked as its guest count, and a form on screen holds them
BookNowWritten == matchRoute(location.pathname).element = "BookingPage"

C28_BookNowCarriesStay ==
    /\ BookNowWritten =>
         LET initial == BookingFormInitial(location.search)
         IN  /\ initial.startDate = checkIn
             /\ initial.endDate = checkOut
             /\ initial.adults + initial.children = guests
    /\ bookingPage # NotMounted => bookingPage.propertyId = id
    /\ bookingPage.view = "BookingForm" =>
         /\ startDate = checkIn
         /\ endDate = checkOut
         /\ adults + children = guests

----------------------------------------------------------------------------
\* C29: whenever loading is false and profile is non-null, profile is the row
\* of the user signed in now, and isOwner holds only for a user who is an
\* owner by their own profile and metadata
C29_ProfileOfCurrentUser ==
    ~loading =>
        /\ profile # NoProfile => profile.id = authUser
        /\ isOwner => authUser # NoUser /\ Profiles(authUser).user_type = "owner"

----------------------------------------------------------------------------
\* C30: a media list that is not empty has exactly one item marked primary
PrimaryItems == {i \in 1..Len(media) : media[i].isPrimary}

C30_ExactlyOnePrimary == Len(media) > 0 => Cardinality(PrimaryItems) = 1

====
